---- MODULE Spec2Model ----
(***************************************************************************)
(* Model of eci_to_ecef.py: a script that converts an ECI position vector  *)
(* at a civil date/time to ECEF.                                           *)
(*                                                                         *)
(* A Python float is an IEEE-754 binary64 number: a finite float is        *)
(* (-1)^neg * mag * 2^exp with mag below 2^53, and every operation rounds  *)
(* its exact result to the nearest float, ties to the even significand,    *)
(* overflowing to an infinity and underflowing through the subnormals to   *)
(* zero.  A Python int is an integer of any size.  Both are held as        *)
(* sequences of 15-bit limbs.  math.cos, math.sin and ** are the C         *)
(* library's cos, sin and pow, which are accurate to within a unit in the  *)
(* last place and not always the nearest float: where the exact result is  *)
(* no float, such a function returns the float next below it or the float  *)
(* next above it, and which of the two is left open.  A function that      *)
(* calls one of them has a set of possible outcomes.                       *)
(***************************************************************************)
EXTENDS Integers, Sequences, FiniteSets, TLC

(***************************************************************************)
(* Natural numbers as little-endian sequences of limbs, without high zero  *)
(* limbs (zero is the empty sequence).                                     *)
(***************************************************************************)
LimbBits == 15

Base == 2^LimbBits

Limb(a, i) == IF i <= Len(a) THEN a[i] ELSE 0

MaxOf(m, n) == IF m >= n THEN m ELSE n

MinOf(m, n) == IF m <= n THEN m ELSE n

\* a without its high zero limbs
NNorm(a) ==
    IF \A i \in 1..Len(a) : a[i] = 0 THEN <<>>
    ELSE SubSeq(a, 1, CHOOSE n \in 1..Len(a) :
                        a[n] # 0 /\ \A i \in (n + 1)..Len(a) : a[i] = 0)

\* The limbs lo..hi of a sum, a difference, a product and a quotient are
\* computed half by half, the carry c of one half entering the other.
NJoin(l, h) == [s |-> l.s \o h.s, c |-> h.c]

RECURSIVE NAddRange(_, _, _, _, _)
NAddHigh(a, b, lo, hi, l) == NJoin(l, NAddRange(a, b, lo, hi, l.c))

NAddRange(a, b, lo, hi, c) ==
    IF lo = hi
    THEN [s |-> <<(Limb(a, lo) + Limb(b, lo) + c) % Base>>,
          c |-> (Limb(a, lo) + Limb(b, lo) + c) \div Base]
    ELSE NAddHigh(a, b, (lo + hi) \div 2 + 1, hi, NAddRange(a, b, lo, (lo + hi) \div 2, c))

NAddOut(r) == IF r.c = 0 THEN r.s ELSE Append(r.s, r.c)

NAdd(a, b) ==
    IF a = <<>> THEN b
    ELSE IF b = <<>> THEN a
    ELSE NAddOut(NAddRange(a, b, 1, MaxOf(Len(a), Len(b)), 0))

RECURSIVE NSubRange(_, _, _, _, _)
NSubHigh(a, b, lo, hi, l) == NJoin(l, NSubRange(a, b, lo, hi, l.c))

NSubRange(a, b, lo, hi, c) ==
    IF lo = hi
    THEN [s |-> <<(a[lo] - Limb(b, lo) - c) % Base>>,
          c |-> IF a[lo] - Limb(b, lo) - c < 0 THEN 1 ELSE 0]
    ELSE NSubHigh(a, b, (lo + hi) \div 2 + 1, hi, NSubRange(a, b, lo, (lo + hi) \div 2, c))

\* a - b for a >= b
NSub(a, b) == IF b = <<>> THEN a ELSE NNorm(NSubRange(a, b, 1, Len(a), 0).s)

NCmpAt(a, b, i) == IF a[i] < b[i] THEN -1 ELSE 1

\* -1, 0, 1 as a < b, a = b, a > b
NCmp(a, b) ==
    IF Len(a) < Len(b) THEN -1
    ELSE IF Len(a) > Len(b) THEN 1
    ELSE IF a = b THEN 0
    ELSE NCmpAt(a, b, CHOOSE i \in 1..Len(a) :
                        a[i] # b[i] /\ \A j \in (i + 1)..Len(a) : a[j] = b[j])

RECURSIVE NFromInt(_)
NFromInt(n) == IF n = 0 THEN <<>> ELSE <<n % Base>> \o NFromInt(n \div Base)

RECURSIVE NMulSmallRange(_, _, _, _, _)
NMulSmallHigh(a, k, lo, hi, l) == NJoin(l, NMulSmallRange(a, k, lo, hi, l.c))

NMulSmallRange(a, k, lo, hi, c) ==
    IF lo = hi
    THEN [s |-> <<(a[lo] * k + c) % Base>>, c |-> (a[lo] * k + c) \div Base]
    ELSE NMulSmallHigh(a, k, (lo + hi) \div 2 + 1, hi,
                       NMulSmallRange(a, k, lo, (lo + hi) \div 2, c))

NMulSmallOut(r) == r.s \o NFromInt(r.c)

\* a * k for 0 <= k < 2 * Base
NMulSmall(a, k) ==
    IF a = <<>> \/ k = 0 THEN <<>> ELSE NMulSmallOut(NMulSmallRange(a, k, 1, Len(a), 0))

\* a * Base^n
NShl(a, n) == IF a = <<>> THEN a ELSE [j \in 1..n |-> 0] \o a

\* floor(a / Base^n)
NShr(a, n) == IF Len(a) <= n THEN <<>> ELSE SubSeq(a, n + 1, Len(a))

\* a times the limbs lo..hi of b
RECURSIVE NMulRange(_, _, _, _)
NMulRange(a, b, lo, hi) ==
    IF lo = hi THEN NShl(NMulSmall(a, b[lo]), lo - 1)
    ELSE NAdd(NMulRange(a, b, lo, (lo + hi) \div 2),
              NMulRange(a, b, (lo + hi) \div 2 + 1, hi))

NMul(a, b) == IF a = <<>> \/ b = <<>> THEN <<>> ELSE NMulRange(a, b, 1, Len(b))

\* long division by 0 < d <= 2 * Base from the high limb: the quotient limbs
\* hi..lo as s, the high one first, and the remainder as c, c being the
\* remainder of the limbs above
RECURSIVE NDivRange(_, _, _, _, _)
NDivJoin(h, l) == [s |-> h.s \o l.s, c |-> l.c]

NDivLow(a, d, lo, hi, h) == NDivJoin(h, NDivRange(a, d, lo, hi, h.c))

NDivRange(a, d, lo, hi, c) ==
    IF lo = hi
    THEN [s |-> <<(c * Base + a[lo]) \div d>>, c |-> (c * Base + a[lo]) % d]
    ELSE NDivLow(a, d, lo, (lo + hi) \div 2,
                 NDivRange(a, d, (lo + hi) \div 2 + 1, hi, c))

Reverse(s) == [i \in 1..Len(s) |-> s[Len(s) + 1 - i]]

\* floor(a / d)
NDivSmall(a, d) == IF a = <<>> THEN a ELSE NNorm(Reverse(NDivRange(a, d, 1, Len(a), 0).s))

\* a mod d
NModSmall(a, d) == IF a = <<>> THEN 0 ELSE NDivRange(a, d, 1, Len(a), 0).c

\* a * 2^s
NShlBits(a, s) == NShl(NMulSmall(a, 2^(s % LimbBits)), s \div LimbBits)

\* floor(a / 2^s)
NShrBits(a, s) == NDivSmall(NShr(a, s \div LimbBits), 2^(s % LimbBits))

\* the number of bits of a
BitLen(a) ==
    IF a = <<>> THEN 0
    ELSE LimbBits * (Len(a) - 1)
         + (CHOOSE k \in 1..LimbBits : 2^(k - 1) <= a[Len(a)] /\ a[Len(a)] < 2^k)

\* bit i of a, bit 0 being the lowest
Bit(a, i) == (Limb(a, i \div LimbBits + 1) \div 2^(i % LimbBits)) % 2

\* whether the n low bits of a are all zero
LowZero(a, n) ==
    /\ \A j \in 1..(n \div LimbBits) : Limb(a, j) = 0
    /\ Limb(a, n \div LimbBits + 1) % 2^(n % LimbBits) = 0

\* the number of low zero bits of a # 0
TrailingZeros(a) == CHOOSE k \in 0..(BitLen(a) - 1) : Bit(a, k) = 1 /\ LowZero(a, k)

\* a / 2^s rounded to the nearest whole number, a tie to the even one
RoundNearestEven(a, s) ==
    IF s > 0 /\ Bit(a, s - 1) = 1 /\ (~LowZero(a, s - 1) \/ Bit(a, s) = 1)
    THEN NAdd(NShrBits(a, s), <<1>>)
    ELSE NShrBits(a, s)

\* The numeral whose groups of four decimal digits, the high group first, are
\* those of acc followed by the groups lo..hi of g
RECURSIVE NFromGroups(_, _, _, _)
NFromGroupsRest(g, lo, hi, acc) ==
    IF acc = <<>> /\ lo > hi THEN acc ELSE NFromGroups(g, lo, hi, acc)

NFromGroups(g, lo, hi, acc) ==
    IF lo > hi THEN acc
    ELSE IF lo = hi THEN NAdd(NMulSmall(acc, 100 * 100), NFromInt(g[lo]))
    ELSE NFromGroupsRest(g, (lo + hi) \div 2 + 1, hi, NFromGroups(g, lo, (lo + hi) \div 2, acc))

\* 5^6, the largest power of 5 a limb is multiplied and divided by
Pow5Step == 6

\* a * 5^k
RECURSIVE NMulPow5(_, _)
NMulPow5Rest(a, k) == IF a = <<>> THEN a ELSE NMulPow5(a, k)

NMulPow5(a, k) ==
    IF k <= Pow5Step THEN NMulSmall(a, 5^k)
    ELSE NMulPow5Rest(NMulPow5(a, k \div 2), k - k \div 2)

\* floor(r.q / 5^k) as q, and whether a remainder was left, over r.sticky
RECURSIVE NDivPow5(_, _)
NDivPow5Rest(r, k) == IF r.q = <<>> THEN r ELSE NDivPow5(r, k)

NDivPow5(r, k) ==
    IF k <= Pow5Step
    THEN [q |-> NDivSmall(r.q, 5^k), sticky |-> r.sticky \/ NModSmall(r.q, 5^k) # 0]
    ELSE NDivPow5Rest(NDivPow5(r, k \div 2), k - k \div 2)

RECURSIVE NPow(_, _)
NPow(a, n) == IF n = 0 THEN <<1>> ELSE NMul(a, NPow(a, n - 1))

\* 2^n mod d
RECURSIVE Pow2Mod(_, _)
Pow2Mod(n, d) ==
    IF n = 0 THEN 1 % d
    ELSE IF n % 2 = 1 THEN (2 * Pow2Mod(n - 1, d)) % d
    ELSE (Pow2Mod(n \div 2, d) * Pow2Mod(n \div 2, d)) % d

(***************************************************************************)
(* Python's int: a sign and a magnitude; zero is not negative.             *)
(***************************************************************************)
Z(neg, mag) == [neg |-> neg /\ mag # <<>>, mag |-> mag]

ZFromInt(n) == IF n < 0 THEN Z(TRUE, NFromInt(-n)) ELSE Z(FALSE, NFromInt(n))

ZNeg(a) == Z(~a.neg, a.mag)

ZAddBy(a, b, c) ==
    IF c = 0 THEN Z(FALSE, <<>>)
    ELSE IF c > 0 THEN Z(a.neg, NSub(a.mag, b.mag))
    ELSE Z(b.neg, NSub(b.mag, a.mag))

\* int + int
ZAdd(a, b) ==
    IF a.neg = b.neg THEN Z(a.neg, NAdd(a.mag, b.mag))
    ELSE ZAddBy(a, b, NCmp(a.mag, b.mag))

\* int - int
ZSub(a, b) == ZAdd(a, ZNeg(b))

\* int <= int
ZLeq(a, b) == ~ZSub(b, a).neg

(***************************************************************************)
(* Python's float.  kind is "fin", "inf" or "nan"; a finite float has an   *)
(* odd mag and MinExp <= exp, or is a zero (mag = <<>>, exp = 0), which    *)
(* has a sign as well.                                                     *)
(***************************************************************************)
\* the bits of a significand
MantBits == 53

\* the exponent of the lowest bit of a subnormal: 2^-1074 is the least float
MinExp == -1074

\* 2^1024 is the least power of two that is no float
MaxTop == 1024

Zero(neg) == [kind |-> "fin", neg |-> neg, mag |-> <<>>, exp |-> 0]

Inf(neg) == [kind |-> "inf", neg |-> neg, mag |-> <<>>, exp |-> 0]

NaN == [kind |-> "nan", neg |-> FALSE, mag |-> <<>>, exp |-> 0]

IsNaN(x) == x.kind = "nan"

IsInf(x) == x.kind = "inf"

IsZero(x) == x.kind = "fin" /\ x.mag = <<>>

FxStrip(neg, q, e, tz) == [kind |-> "fin", neg |-> neg, mag |-> NShrBits(q, tz), exp |-> e + tz]

\* the float q * 2^e for q below 2^53 + 1: an infinity from 2^1024 on
FxPack(neg, q, e) ==
    IF q = <<>> THEN Zero(neg)
    ELSE IF BitLen(q) + e > MaxTop THEN Inf(neg)
    ELSE FxStrip(neg, q, e, TrailingZeros(q))

\* m * 2^e with its s low bits rounded away
FxDrop(neg, m, e, s) ==
    IF s > BitLen(m) THEN Zero(neg) ELSE FxPack(neg, RoundNearestEven(m, s), e + s)

\* the float nearest (-1)^neg * mag * 2^exp: the bits below the 53 high ones
\* and below 2^MinExp are rounded away
Fx(neg, mag, exp) ==
    FxDrop(neg, NNorm(mag), exp, MaxOf(MaxOf(BitLen(NNorm(mag)) - MantBits, MinExp - exp), 0))

\* a / 2^s rounded toward zero, or away from zero for up
RoundDirected(a, s, up) ==
    IF up /\ ~LowZero(a, s) THEN NAdd(NShrBits(a, s), <<1>>) ELSE NShrBits(a, s)

FxDirected(neg, m, e, s, up) == FxPack(neg, RoundDirected(m, s, up), e + s)

\* the floats within a unit in the last place of (-1)^neg * mag * 2^exp: the
\* number itself where it is a float, and else the float next below it and
\* the float next above it in magnitude (an infinity from 2^1024 on)
FxFaithful(neg, mag, exp) ==
    { FxDirected(neg, NNorm(mag), exp,
                 MaxOf(MaxOf(BitLen(NNorm(mag)) - MantBits, MinExp - exp), 0), up) :
        up \in BOOLEAN }

\* the guard bits a quotient is computed with beyond those of its significand
Guard == 72

\* the float nearest (-1)^neg * n * 2^(exp - Guard) / d for n = mag * 2^Guard
FxQuotOf(neg, n, exp, d) ==
    Fx(neg,
       NAdd(NMulSmall(NDivSmall(n, d), 2), IF NModSmall(n, d) = 0 THEN <<>> ELSE <<1>>),
       exp - Guard - 1)

\* the float nearest (-1)^neg * mag * 2^exp / d, for 0 < d <= 2 * Base
FxQuot(neg, mag, exp, d) ==
    IF mag = <<>> THEN Zero(neg) ELSE FxQuotOf(neg, NShlBits(mag, Guard), exp, d)

FxOfQuot(neg, r, e) ==
    Fx(neg, NAdd(NMulSmall(r.q, 2), IF r.sticky THEN <<1>> ELSE <<>>), e)

\* float() of the decimal numeral (-1)^neg * digits * 10^e10, and the float
\* of a decimal literal of the source
FloatOfDecimal(neg, digits, e10) ==
    IF digits = <<>> THEN Zero(neg)
    ELSE IF e10 >= 0 THEN Fx(neg, NMulPow5(digits, e10), e10)
    ELSE FxOfQuot(neg, NDivPow5([q |-> NShlBits(digits, 3 * (-e10) + Guard), sticky |-> FALSE], -e10),
                  e10 - (3 * (-e10) + Guard) - 1)

\* the literal whose digits are the groups g (four digits each, the high
\* group first) times 10^e10
Lit(g, e10) == FloatOfDecimal(FALSE, NFromGroups(g, 1, Len(g), <<>>), e10)

\* the float of a small whole number
FxFromInt(n) == IF n < 0 THEN Fx(TRUE, NFromInt(-n), 0) ELSE Fx(FALSE, NFromInt(n), 0)

FxZero == Zero(FALSE)

\* float(n) of an int n: an infinity stands for OverflowError
IntToFloat(n) == Fx(n.neg, n.mag, 0)

\* n / d of an int n and a small positive int d: an infinity stands for
\* OverflowError
IntTrueDiv(n, d) == FxQuot(n.neg, n.mag, 0, d)

\* unary -
FxNeg(x) == IF IsNaN(x) THEN x ELSE [x EXCEPT !.neg = ~x.neg]

\* the exponent above the high bit of a finite x # 0
Top(x) == x.exp + BitLen(x.mag)

FxAddBy(xneg, a, yneg, b, w, c) ==
    IF c = 0 THEN Zero(FALSE)
    ELSE IF c > 0 THEN Fx(xneg, NSub(a, b), w)
    ELSE Fx(yneg, NSub(b, a), w)

\* (-1)^xneg * a * 2^w + (-1)^yneg * b * 2^w
FxAddMags(xneg, a, yneg, b, w) ==
    IF xneg = yneg THEN Fx(xneg, NAdd(a, b), w)
    ELSE FxAddBy(xneg, a, yneg, b, w, NCmp(a, b))

FxAddNear(x, y, w) ==
    FxAddMags(x.neg, NShlBits(x.mag, x.exp - w), y.neg, NShlBits(y.mag, y.exp - w), w)

\* big + y for a y # 0 of sign yneg below the third bit under the
\* significand of big: y decides on which side of big the sum lies
FxAddFar(big, yneg) ==
    FxAddMags(big.neg, NShlBits(big.mag, MantBits + 3 - BitLen(big.mag)), yneg, <<1>>,
              Top(big) - MantBits - 3)

\* float +
FxAdd(x, y) ==
    IF IsNaN(x) \/ IsNaN(y) THEN NaN
    ELSE IF IsInf(x) THEN (IF IsInf(y) /\ x.neg # y.neg THEN NaN ELSE x)
    ELSE IF IsInf(y) THEN y
    ELSE IF IsZero(x) THEN (IF IsZero(y) THEN Zero(x.neg /\ y.neg) ELSE y)
    ELSE IF IsZero(y) THEN x
    ELSE IF Top(x) - Top(y) > MantBits + 3 THEN FxAddFar(x, y.neg)
    ELSE IF Top(y) - Top(x) > MantBits + 3 THEN FxAddFar(y, x.neg)
    ELSE FxAddNear(x, y, MinOf(x.exp, y.exp))

\* float -
FxSub(x, y) == FxAdd(x, FxNeg(y))

\* float *
FxMul(x, y) ==
    IF IsNaN(x) \/ IsNaN(y) THEN NaN
    ELSE IF IsInf(x) \/ IsInf(y)
    THEN (IF IsZero(x) \/ IsZero(y) THEN NaN ELSE Inf(x.neg # y.neg))
    ELSE Fx(x.neg # y.neg, NMul(x.mag, y.mag), x.exp + y.exp)

\* float x / d for the float of a whole number 0 < d <= 2 * Base
FxDivInt(x, d) ==
    IF x.kind # "fin" THEN x ELSE FxQuot(x.neg, x.mag, x.exp, d)

\* |x| < |y| for x and y not NaN
MagLess(x, y) ==
    IF IsInf(x) \/ IsZero(y) THEN FALSE
    ELSE IF IsInf(y) \/ IsZero(x) THEN TRUE
    ELSE IF Top(x) # Top(y) THEN Top(x) < Top(y)
    ELSE NCmp(NShlBits(x.mag, x.exp - MinOf(x.exp, y.exp)),
              NShlBits(y.mag, y.exp - MinOf(x.exp, y.exp))) < 0

\* -1, 0, 1 as x is negative, a zero, positive
Sign(x) == IF IsZero(x) THEN 0 ELSE IF x.neg THEN -1 ELSE 1

\* float <
FxLess(x, y) ==
    IF IsNaN(x) \/ IsNaN(y) THEN FALSE
    ELSE IF Sign(x) # Sign(y) THEN Sign(x) < Sign(y)
    ELSE IF Sign(x) = 0 THEN FALSE
    ELSE IF Sign(x) > 0 THEN MagLess(x, y)
    ELSE MagLess(y, x)

\* math.floor of a finite x, an int
FxFloor(x) ==
    IF x.exp >= 0 THEN Z(x.neg, NShlBits(x.mag, x.exp))
    ELSE IF x.neg THEN Z(TRUE, NAdd(NShrBits(x.mag, -x.exp), <<1>>))
    ELSE Z(FALSE, NShrBits(x.mag, -x.exp))

FmodFrac(x, d, whole) ==
    Fx(x.neg,
       NAdd(NShlBits(NFromInt(NModSmall(whole, d)), -x.exp),
            NSub(x.mag, NShlBits(whole, -x.exp))),
       x.exp)

\* C's fmod(x, d) for the float of a whole number 0 < d < Base: the exact
\* remainder, with the sign of x
Fmod(x, d) ==
    IF x.kind # "fin" THEN NaN
    ELSE IF IsZero(x) THEN x
    ELSE IF x.exp >= 0
    THEN Fx(x.neg, NFromInt((NModSmall(x.mag, d) * Pow2Mod(x.exp, d)) % d), 0)
    ELSE IF -x.exp >= BitLen(x.mag) THEN x
    ELSE FmodFrac(x, d, NShrBits(x.mag, -x.exp))

FloatModOf(mod, d) ==
    IF IsNaN(mod) THEN mod
    ELSE IF IsZero(mod) THEN Zero(FALSE)
    ELSE IF mod.neg THEN FxAdd(mod, FxFromInt(d))
    ELSE mod

\* Python's float x % d for d > 0: fmod, then a negative remainder has d
\* added to it and a zero remainder is +0.0
FloatMod(x, d) == FloatModOf(Fmod(x, d), d)

\* the values C's pow(x, n) may return for an int n > 0: the power where it
\* is a float, and else the float on either side of it
FloatPowValue(x, n) ==
    IF IsNaN(x) THEN {x}
    ELSE IF IsInf(x) THEN {Inf(x.neg /\ n % 2 = 1)}
    ELSE IF IsZero(x) THEN {Zero(x.neg /\ n % 2 = 1)}
    ELSE FxFaithful(x.neg /\ n % 2 = 1, NPow(x.mag, n), x.exp * n)

FloatPowOf(x, p) == [raised |-> x.kind = "fin" /\ IsInf(p), value |-> p]

\* the outcomes of x ** n for an int n > 0: [raised |-> TRUE] stands for the
\* OverflowError of a finite x whose power is no float
FloatPow(x, n) == { FloatPowOf(x, p) : p \in FloatPowValue(x, n) }

(***************************************************************************)
(* math.cos and math.sin, computed in fixed point with TrigBits bits below *)
(* the point; the result is the float next below or next above.            *)
(***************************************************************************)
\* the limbs below the point
TrigLimbs == 8

TrigBits == LimbBits * TrigLimbs

\* the limbs more the argument is reduced with
ReduceLimbs == 4

\* floor(pi * 2^225) and floor(2/pi * 2^225)
PiLimbs == 15

PiDigits ==
    <<30001, 8379, 3712, 6643, 1093, 590, 8786, 28787, 23558, 26152, 6296, 12429, 4276,
      23202, 4639, 3>>

TwoOverPiDigits ==
    <<18263, 31045, 527, 17465, 13095, 22693, 24685, 13533, 9194, 7519, 20449, 16722,
      18888, 24795, 20860>>

\* floor(pi/2 * Base^n) and floor(2/pi * Base^n)
HalfPiFixed(n) == NDivSmall(NShr(PiDigits, PiLimbs - n), 2)

TwoOverPiFixed(n) == NShr(TwoOverPiDigits, PiLimbs - n)

\* x = (k or k + 1) * pi/2 + r with 0 <= r < pi/2: the quadrant q and r
QuadrantFix(k, r, h) ==
    IF NCmp(r, h) >= 0
    THEN [q |-> (Limb(k, 1) + 1) % 4, r |-> NShr(NSub(r, h), ReduceLimbs)]
    ELSE [q |-> Limb(k, 1) % 4, r |-> NShr(r, ReduceLimbs)]

QuadrantOf(xp, k) ==
    QuadrantFix(k, NSub(xp, NMul(k, HalfPiFixed(TrigLimbs + ReduceLimbs))),
                HalfPiFixed(TrigLimbs + ReduceLimbs))

QuadrantAt(xp) ==
    QuadrantOf(xp, NShr(NMul(xp, TwoOverPiFixed(TrigLimbs + ReduceLimbs)),
                        2 * (TrigLimbs + ReduceLimbs)))

\* the quadrant q of |x| and the rest r of |x| in it, in fixed point
Quadrant(x) == QuadrantAt(NShlBits(x.mag, LimbBits * (TrigLimbs + ReduceLimbs) + x.exp))

\* the alternating power series from its term t of degree n on, in fixed
\* point: t minus the series from the next term on
RECURSIVE Series(_, _, _)
Series(t, r2, n) ==
    IF t = <<>> THEN t
    ELSE NSub(t, Series(NDivSmall(NShr(NMul(t, r2), TrigLimbs), (n + 1) * (n + 2)), r2, n + 2))

CosSeries(r) == Series(NShl(<<1>>, TrigLimbs), NShr(NMul(r, r), TrigLimbs), 0)

SinSeries(r) == Series(r, NShr(NMul(r, r), TrigLimbs), 1)

\* the values of cos of q * pi/2 + r
CosOf(a) ==
    FxFaithful(a.q \in {1, 2}, IF a.q \in {0, 2} THEN CosSeries(a.r) ELSE SinSeries(a.r), -TrigBits)

\* the values of sin of q * pi/2 + r, negated for neg
SinOf(neg, a) ==
    FxFaithful(neg # (a.q \in {2, 3}), IF a.q \in {0, 2} THEN SinSeries(a.r) ELSE CosSeries(a.r),
       -TrigBits)

\* below 2^TinyTop cos(x) is 1 and sin(x) is x
TinyTop == -27

Tiny(x) == IsZero(x) \/ Top(x) <= TinyTop

\* the outcomes of math.cos: [raised |-> TRUE] stands for the ValueError of
\* an infinity
cos(x) ==
    IF IsNaN(x) THEN {[raised |-> FALSE, value |-> x]}
    ELSE IF IsInf(x) THEN {[raised |-> TRUE, value |-> NaN]}
    ELSE IF Tiny(x) THEN {[raised |-> FALSE, value |-> FxFromInt(1)]}
    ELSE { [raised |-> FALSE, value |-> v] : v \in CosOf(Quadrant(x)) }

\* the outcomes of math.sin
sin(x) ==
    IF IsNaN(x) THEN {[raised |-> FALSE, value |-> x]}
    ELSE IF IsInf(x) THEN {[raised |-> TRUE, value |-> NaN]}
    ELSE IF Tiny(x) THEN {[raised |-> FALSE, value |-> x]}
    ELSE { [raised |-> FALSE, value |-> v] : v \in SinOf(x.neg, Quadrant(x)) }


(***************************************************************************)
(* The functions of the script.  A function that can end in an exception   *)
(* returns [raised |-> TRUE] for it, and its value otherwise; jd_to_gmst    *)
(* and eci_to_ecef, which call the C library, have sets of such outcomes.  *)
(***************************************************************************)
\* a name that is not bound to a value
Unbound == [kind |-> "unbound", neg |-> FALSE, mag |-> <<>>, exp |-> 0]

Raise == [raised |-> TRUE, value |-> Unbound]

Return(v) == [raised |-> FALSE, value |-> v]

\* math.pi
pi == Lit(<<3141, 5926, 5358, 9793>>, -15)

\* lines 42-43, given jd of line 41, float(hour) and minute / 60: either
\* being no float is the OverflowError of line 42
AddDayFraction(jd0, h, m60, second0) ==
    IF IsInf(h) \/ IsInf(m60) THEN Raise
    ELSE Return(FxAdd(jd0, FxDivInt(FxAdd(FxAdd(h, m60), FxDivInt(second0, 3600)), 24)))

\* lines 41-43, given the float of C + D + day + B: its being no float is
\* the OverflowError of line 41
JulianDayOf(s, hour0, minute0, second0) ==
    IF IsInf(s) THEN Raise
    ELSE AddDayFraction(FxSub(s, Lit(<<1, 5245>>, -1)), IntToFloat(hour0),
                        IntTrueDiv(minute0, 60), second0)

\* lines 38-43, given the products c and d of lines 38 and 39: math.floor of
\* an infinity is the OverflowError of these lines, as is a year or a month
\* that is no float
JulianDayFrom(B, c, d, day0, hour0, minute0, second0) ==
    IF IsInf(c) \/ IsInf(d) THEN Raise
    ELSE JulianDayOf(IntToFloat(ZAdd(ZAdd(ZAdd(FxFloor(c), FxFloor(d)), day0), B)),
                     hour0, minute0, second0)

\* lines 38-43, after the shift of January and February: y and m are the
\* shifted year and month, B the century correction of line 37
JulianDay(y, m, B, day0, hour0, minute0, second0) ==
    JulianDayFrom(B,
                  FxMul(Lit(<<3, 6525>>, -2), IntToFloat(ZAdd(y, ZFromInt(4716)))),
                  FxMul(Lit(<<30, 6001>>, -4), IntToFloat(ZAdd(m, ZFromInt(1)))),
                  day0, hour0, minute0, second0)

\* line 37, given A of line 36
CenturyCorrection(A) == ZAdd(ZSub(ZFromInt(2), A), FxFloor(IntTrueDiv(A, 4)))

\* lines 36-37, given year / 100: its being no float is the OverflowError of
\* line 36
CenturyOf(a) == IF IsInf(a) THEN Raise ELSE Return(CenturyCorrection(FxFloor(a)))

\* lines 36-37
CenturyTerm(y) == CenturyOf(IntTrueDiv(y, 100))

\* lines 36-43, given the result B of lines 36-37
JulianDayIn(ym, B, day0, hour0, minute0, second0) ==
    IF B.raised THEN Raise
    ELSE JulianDay(ym[1], ym[2], B.value, day0, hour0, minute0, second0)

\* lines 36-43 for the year and month ym
JulianDayAfterShift(ym, day0, hour0, minute0, second0) ==
    JulianDayIn(ym, CenturyTerm(ym[1]), day0, hour0, minute0, second0)

\* lines 32-34: January and February are months 13 and 14 of the year before
Shifted(year0, month0) ==
    IF ZLeq(month0, ZFromInt(2))
    THEN <<ZSub(year0, ZFromInt(1)), ZAdd(month0, ZFromInt(12))>>
    ELSE <<year0, month0>>

\* without lines 32-34: January and February are not moved to the year before
ymdhms_to_jd_NoShift(year0, month0, day0, hour0, minute0, second0) ==
    JulianDayAfterShift(<<year0, month0>>, day0, hour0, minute0, second0)

\* lines 33-34 without the test of line 32: every month is moved
ymdhms_to_jd_ShiftAll(year0, month0, day0, hour0, minute0, second0) ==
    JulianDayAfterShift(<<ZSub(year0, ZFromInt(1)), ZAdd(month0, ZFromInt(12))>>,
                        day0, hour0, minute0, second0)

\* line 37 without its century correction (B = 0): the Julian calendar
ymdhms_to_jd_Julian(year0, month0, day0, hour0, minute0, second0) ==
    JulianDayIn(Shifted(year0, month0), Return(ZFromInt(0)), day0, hour0, minute0, second0)

ymdhms_to_jd(year0, month0, day0, hour0, minute0, second0) ==
    JulianDayAfterShift(Shifted(year0, month0), day0, hour0, minute0, second0)

\* line 49: Julian centuries since J2000.0
JulianCenturies(jd0) == FxDivInt(FxSub(jd0, Lit(<<245, 1545>>, 0)), 36525)

\* line 50, given the outcomes of T**2 and T**3
GMST_secOf(T, T2, T3) ==
    IF T2.raised \/ T3.raised THEN Raise
    ELSE Return(FxSub(FxAdd(FxAdd(Lit(<<67, 3105, 4841>>, -5),
                                  FxMul(FxAdd(FxMul(FxFromInt(876600), FxFromInt(3600)),
                                              Lit(<<8, 6401, 8481, 2866>>, -6)), T)),
                            FxMul(Lit(<<9, 3104>>, -6), T2.value)),
                      FxMul(Lit(<<62>>, -7), T3.value)))

\* the outcomes of line 50; [raised |-> TRUE] stands for the OverflowError of
\* T**2 or T**3
GMST_sec(T) == { GMST_secOf(T, T2, T3) : T2 \in FloatPow(T, 2), T3 \in FloatPow(T, 3) }

\* lines 52-53
AddTurnIfNegative(GMST_deg) ==
    IF FxLess(GMST_deg, FxZero) THEN FxAdd(GMST_deg, FxFromInt(360)) ELSE GMST_deg

\* lines 51-54 without the % 360.0 of line 51
GMST_degOf_NoModulo(s) ==
    IF s.raised THEN s ELSE Return(AddTurnIfNegative(FxDivInt(s.value, 240)))

\* lines 51-54, given the outcome of line 50
GMST_degOf(s) ==
    IF s.raised THEN s ELSE Return(AddTurnIfNegative(FloatMod(FxDivInt(s.value, 240), 360)))

\* the outcomes of jd_to_gmst
jd_to_gmst(jd0) == { GMST_degOf(s) : s \in GMST_sec(JulianCenturies(jd0)) }

degrees_to_radians(degrees) == FxDivInt(FxMul(degrees, pi), 180)

\* lines 69-71 with line 71 as a third rotated component
RotateWith_ZTilt(cos_gmst, sin_gmst, eci_x, eci_y, eci_z) ==
    <<FxAdd(FxMul(cos_gmst, eci_x), FxMul(sin_gmst, eci_y)),
      FxAdd(FxMul(FxNeg(sin_gmst), eci_x), FxMul(cos_gmst, eci_y)),
      FxMul(cos_gmst, eci_z)>>

\* lines 69-71 with line 70 without its minus sign
RotateWith_SignError(cos_gmst, sin_gmst, eci_x, eci_y, eci_z) ==
    <<FxAdd(FxMul(cos_gmst, eci_x), FxMul(sin_gmst, eci_y)),
      FxAdd(FxMul(sin_gmst, eci_x), FxMul(cos_gmst, eci_y)),
      eci_z>>

\* lines 69-73
RotateWith(cos_gmst, sin_gmst, eci_x, eci_y, eci_z) ==
    <<FxAdd(FxMul(cos_gmst, eci_x), FxMul(sin_gmst, eci_y)),
      FxAdd(FxMul(FxNeg(sin_gmst), eci_x), FxMul(cos_gmst, eci_y)),
      eci_z>>

\* lines 66-73, given the outcomes of math.cos and math.sin: the ValueError of
\* an infinite angle ends the function
RotateBy(c, s, eci_x, eci_y, eci_z) ==
    IF c.raised \/ s.raised THEN Raise
    ELSE Return(RotateWith(c.value, s.value, eci_x, eci_y, eci_z))

\* lines 66-67 with cos and sin exchanged
RotateRad_Swapped(gmst_rad, eci_x, eci_y, eci_z) ==
    { RotateBy(s, c, eci_x, eci_y, eci_z) : c \in cos(gmst_rad), s \in sin(gmst_rad) }

\* the outcomes of lines 66-73
RotateRad(gmst_rad, eci_x, eci_y, eci_z) ==
    { RotateBy(c, s, eci_x, eci_y, eci_z) : c \in cos(gmst_rad), s \in sin(gmst_rad) }

\* the outcomes of lines 63-73 of eci_to_ecef: the rotation by the angle
\* gmst0, in degrees
Rotate(gmst0, eci_x, eci_y, eci_z) ==
    RotateRad(degrees_to_radians(gmst0), eci_x, eci_y, eci_z)

\* the outcomes of lines 62-73, given the outcome of line 62
eci_to_ecefOf(g, eci_x, eci_y, eci_z) ==
    IF g.raised THEN {Raise} ELSE Rotate(g.value, eci_x, eci_y, eci_z)

\* the outcomes of eci_to_ecef
eci_to_ecef(jd0, eci_x, eci_y, eci_z) ==
    UNION { eci_to_ecefOf(g, eci_x, eci_y, eci_z) : g \in jd_to_gmst(jd0) }

(***************************************************************************)
(* The script.  argv[1] is the script's name, as sys.argv[0] is.  A token  *)
(* of the command line is a decimal numeral, (-1)^neg * digits * 10^e10    *)
(* with its digits in groups of four and written without leading zeros,    *)
(* or nan, or inf with a sign, or text that is none of these; an integer   *)
(* numeral has no point and no exponent.                                   *)
(***************************************************************************)
VARIABLES
    pc,        \* the position in the script
    argv,      \* sys.argv
    year, month, day, hour, minute, second,
    eci,       \* <<eci_x_km, eci_y_km, eci_z_km>>
    jd,        \* the script's jd
    gmst,      \* eci_to_ecef's local gmst
    ecef,      \* <<ecef_x_km, ecef_y_km, ecef_z_km>>
    stdout,    \* the lines printed
    raised,    \* the exception that ended the run, or "none"
    status,    \* the exit status, once pc = "done"
    calls,     \* the functions entered, in order
    fin, fout  \* a function applied on its own: its input and its result

vars == <<pc, argv, year, month, day, hour, minute, second, eci, jd, gmst, ecef,
          stdout, raised, status, calls, fin, fout>>

IntTok(neg, g) == [kind |-> "int", neg |-> neg, digits |-> g, e10 |-> 0]

DecTok(neg, g, e10) == [kind |-> "dec", neg |-> neg, digits |-> g, e10 |-> e10]

NanTok == [kind |-> "nan", neg |-> FALSE, digits |-> <<>>, e10 |-> 0]

InfTok(neg) == [kind |-> "inf", neg |-> neg, digits |-> <<>>, e10 |-> 0]

TextTok == [kind |-> "text", neg |-> FALSE, digits |-> <<>>, e10 |-> 0]

\* the digits of a group that leads a numeral
GroupDigits(v) == IF v < 10 THEN 1 ELSE IF v < 100 THEN 2 ELSE IF v < 10 * 100 THEN 3 ELSE 4

\* the digits of the numeral whose groups are g, written without leading
\* zeros
DigitCount(g) ==
    IF \A i \in 1..Len(g) : g[i] = 0 THEN 1
    ELSE 4 * (Len(g) - (CHOOSE i \in 1..Len(g) : g[i] # 0 /\ \A j \in 1..(i - 1) : g[j] = 0))
         + GroupDigits(g[CHOOSE i \in 1..Len(g) : g[i] # 0 /\ \A j \in 1..(i - 1) : g[j] = 0])

\* the digits int(s) converts at most: sys.get_int_max_str_digits()
MaxStrDigits == 4300

\* int(s) accepts an integer numeral of at most MaxStrDigits digits
IntParses(tok) == tok.kind = "int" /\ DigitCount(tok.digits) <= MaxStrDigits

\* float(s) accepts a numeral of any length, nan and inf
FloatParses(tok) == tok.kind \in {"int", "dec", "nan", "inf"}

\* int(s) of an integer numeral
int(tok) == Z(tok.neg, NFromGroups(tok.digits, 1, Len(tok.digits), <<>>))

\* float(s) of a numeral: the nearest float, an infinity beyond the floats
float(tok) ==
    IF tok.kind = "nan" THEN NaN
    ELSE IF tok.kind = "inf" THEN Inf(tok.neg)
    ELSE FloatOfDecimal(tok.neg, NFromGroups(tok.digits, 1, Len(tok.digits), <<>>), tok.e10)

ArgCount == 10

\* whether argv[i] converts, by int() for argv[2..6] and float() for the rest
Converts(a, i) == IF i <= 6 THEN IntParses(a[i]) ELSE FloatParses(a[i])

\* the first argument that does not convert, ArgCount + 1 when all do
FirstBad(a) ==
    IF \A i \in 2..ArgCount : Converts(a, i) THEN ArgCount + 1
    ELSE CHOOSE i \in 2..ArgCount :
            ~Converts(a, i) /\ \A j \in 2..(i - 1) : Converts(a, j)

Line(kind, v) == [kind |-> kind, v |-> v]

\* lines 87-96 with the month validated: a month outside 1..12 gets the
\* usage message
ParseArgs_Validating ==
    /\ pc = "parse"
    /\ Len(argv) = ArgCount
    /\ FirstBad(argv) = ArgCount + 1
    /\ year' = int(argv[2])
    /\ month' = int(argv[3])
    /\ day' = int(argv[4])
    /\ hour' = int(argv[5])
    /\ minute' = int(argv[6])
    /\ second' = float(argv[7])
    /\ eci' = <<float(argv[8]), float(argv[9]), float(argv[10])>>
    /\ IF ZLeq(ZFromInt(1), int(argv[3])) /\ ZLeq(int(argv[3]), ZFromInt(12))
       THEN pc' = "calc_jd" /\ UNCHANGED stdout
       ELSE pc' = "done" /\ stdout' = Append(stdout, Line("usage", Unbound))
    /\ UNCHANGED <<argv, jd, gmst, ecef, raised, status, calls, fin, fout>>

\* lines 87-96 with every conversion succeeding
ParseArgs ==
    /\ pc = "parse"
    /\ Len(argv) = ArgCount
    /\ FirstBad(argv) = ArgCount + 1
    /\ year' = int(argv[2])
    /\ month' = int(argv[3])
    /\ day' = int(argv[4])
    /\ hour' = int(argv[5])
    /\ minute' = int(argv[6])
    /\ second' = float(argv[7])
    /\ eci' = <<float(argv[8]), float(argv[9]), float(argv[10])>>
    /\ pc' = "calc_jd"
    /\ UNCHANGED <<argv, jd, gmst, ecef, stdout, raised, status, calls, fin, fout>>

\* the assignments of lines 88-96 before argument k
ParsedBefore(k) ==
    /\ year' = IF k > 2 THEN int(argv[2]) ELSE year
    /\ month' = IF k > 3 THEN int(argv[3]) ELSE month
    /\ day' = IF k > 4 THEN int(argv[4]) ELSE day
    /\ hour' = IF k > 5 THEN int(argv[5]) ELSE hour
    /\ minute' = IF k > 6 THEN int(argv[6]) ELSE minute
    /\ second' = IF k > 7 THEN float(argv[7]) ELSE second
    /\ eci' = <<IF k > 8 THEN float(argv[8]) ELSE eci[1],
                IF k > 9 THEN float(argv[9]) ELSE eci[2],
                eci[3]>>

\* lines 87-96 with a conversion raising ValueError: the assignments before
\* it are made, the traceback goes to stderr and the exit status is 1
ParseError ==
    /\ pc = "parse"
    /\ Len(argv) = ArgCount
    /\ FirstBad(argv) <= ArgCount
    /\ ParsedBefore(FirstBad(argv))
    /\ raised' = "ValueError"
    /\ status' = 1
    /\ pc' = "done"
    /\ UNCHANGED <<argv, jd, gmst, ecef, stdout, calls, fin, fout>>

\* lines 97-99: the usage message, then exit() with no argument, which is
\* SystemExit(None): exit status 0
Usage ==
    /\ pc = "parse"
    /\ Len(argv) # ArgCount
    /\ stdout' = Append(stdout, Line("usage", Unbound))
    /\ status' = 0
    /\ pc' = "done"
    /\ UNCHANGED <<argv, year, month, day, hour, minute, second, eci, jd, gmst, ecef,
                   raised, calls, fin, fout>>

\* the end of a run in an exception no handler catches: the traceback goes
\* to stderr and the exit status is 1
Uncaught(e) ==
    /\ raised' = e
    /\ status' = 1
    /\ pc' = "done"

\* line 102, given the result of the call
CalcJDWith(r) ==
    IF r.raised
    THEN Uncaught("OverflowError") /\ UNCHANGED jd
    ELSE jd' = r.value /\ pc' = "call_gmst" /\ UNCHANGED <<raised, status>>

\* line 102: an OverflowError of ymdhms_to_jd is caught nowhere
CalcJD ==
    /\ pc = "calc_jd"
    /\ calls' = Append(calls, "ymdhms_to_jd")
    /\ CalcJDWith(ymdhms_to_jd(year, month, day, hour, minute, second))
    /\ UNCHANGED <<argv, year, month, day, hour, minute, second, eci, gmst, ecef,
                   stdout, fin, fout>>

\* line 62, given the result of the call
CalcGMSTWith(g) ==
    IF g.raised
    THEN Uncaught("OverflowError") /\ UNCHANGED gmst
    ELSE gmst' = g.value /\ pc' = "rotate" /\ UNCHANGED <<raised, status>>

\* line 105 entering eci_to_ecef, line 62: an OverflowError of jd_to_gmst is
\* caught nowhere
CalcGMST ==
    /\ pc = "call_gmst"
    /\ calls' = Append(calls, "jd_to_gmst")
    /\ \E g \in jd_to_gmst(jd) : CalcGMSTWith(g)
    /\ UNCHANGED <<argv, year, month, day, hour, minute, second, eci, jd, ecef,
                   stdout, fin, fout>>

\* lines 63-73 and the assignment of line 105, given the result
RotateStepWith(r) ==
    IF r.raised
    THEN Uncaught("ValueError") /\ UNCHANGED ecef
    ELSE ecef' = r.value /\ pc' = "print_x" /\ UNCHANGED <<raised, status>>

\* lines 63-73 and the assignment of line 105
RotateStep ==
    /\ pc = "rotate"
    /\ calls' = Append(calls, "rotate")
    /\ \E r \in Rotate(gmst, eci[1], eci[2], eci[3]) : RotateStepWith(r)
    /\ UNCHANGED <<argv, year, month, day, hour, minute, second, eci, jd, gmst,
                   stdout, fin, fout>>

\* line 108 printing ecef_y_km
PrintX_Y ==
    /\ pc = "print_x"
    /\ stdout' = Append(stdout, Line("ecef_y_km", ecef[2]))
    /\ pc' = "print_y"
    /\ UNCHANGED <<argv, year, month, day, hour, minute, second, eci, jd, gmst, ecef,
                   raised, status, calls, fin, fout>>

\* line 108
PrintX ==
    /\ pc = "print_x"
    /\ stdout' = Append(stdout, Line("ecef_x_km", ecef[1]))
    /\ pc' = "print_y"
    /\ UNCHANGED <<argv, year, month, day, hour, minute, second, eci, jd, gmst, ecef,
                   raised, status, calls, fin, fout>>

\* line 109
PrintY ==
    /\ pc = "print_y"
    /\ stdout' = Append(stdout, Line("ecef_y_km", ecef[2]))
    /\ pc' = "print_z"
    /\ UNCHANGED <<argv, year, month, day, hour, minute, second, eci, jd, gmst, ecef,
                   raised, status, calls, fin, fout>>

\* line 110 and the end of the script: exit status 0
PrintZ ==
    /\ pc = "print_z"
    /\ stdout' = Append(stdout, Line("ecef_z_km", ecef[3]))
    /\ status' = 0
    /\ pc' = "done"
    /\ UNCHANGED <<argv, year, month, day, hour, minute, second, eci, jd, gmst, ecef,
                   raised, calls, fin, fout>>

(***************************************************************************)
(* The command lines checked.                                              *)
(***************************************************************************)
\* how many arguments fewer or more than the nine are tried
MaxArgsOff == 1

\* the numeral of a whole number below 10^8, in groups of four digits
Numeral(n) == <<n \div (100 * 100), n % (100 * 100)>>

IntArg(n) == IF n < 0 THEN IntTok(TRUE, Numeral(-n)) ELSE IntTok(FALSE, Numeral(n))

\* the numeral of lead * 10^(4 * k)
Power10(lead, k) == IntTok(FALSE, <<lead>> \o [i \in 1..k |-> 0])

\* year, month, day, hour, minute, second as given on the command line
Fields(y, m, d, h, mi, s) == <<IntArg(y), IntArg(m), IntArg(d), IntArg(h), IntArg(mi), s>>

\* dates and times within and outside the calendar
DateTimes ==
    { Fields(2000, 1, 1, 12, 0, IntArg(0)),
      Fields(2023, 3, 15, 12, 0, IntArg(0)),
      Fields(2024, 2, 29, 23, 59, DecTok(FALSE, <<595>>, -1)),
      Fields(1987, 6, 5, 4, 3, IntArg(2)),
      Fields(1900, 12, 31, 0, 0, IntArg(0)),
      Fields(2000, 13, 32, 25, 60, DecTok(FALSE, <<615>>, -1)),
      Fields(2023, 0, 0, -1, -1, DecTok(TRUE, <<5>>, -1)),
      Fields(-1, 14, 0, 24, 0, IntArg(60)) }

\* fields of 10^100, 10^306 and 10^400, a year of 4300 digits (10^4299), and
\* seconds of 1e100, 1e170, 1e400, nan and -inf
FarDateTimes ==
    { [Fields(2000, 1, 1, 0, 0, DecTok(FALSE, <<1>>, 100)) EXCEPT ![1] = Power10(1, 25)],
      [Fields(2000, 1, 1, 0, 0, IntArg(0)) EXCEPT ![3] = Power10(1, 25)],
      [Fields(2000, 1, 1, 0, 0, IntArg(0)) EXCEPT ![1] = Power10(100, 76)],
      [Fields(2000, 1, 1, 0, 0, IntArg(0)) EXCEPT ![2] = Power10(100, 76)],
      [Fields(2000, 1, 1, 0, 0, IntArg(0)) EXCEPT ![1] = Power10(1, 100)],
      [Fields(2000, 1, 1, 0, 0, IntArg(0)) EXCEPT ![3] = Power10(1, 100)],
      [Fields(2000, 1, 1, 0, 0, IntArg(0)) EXCEPT ![4] = Power10(1, 100)],
      [Fields(2000, 1, 1, 0, 0, IntArg(0)) EXCEPT ![5] = Power10(1, 100)],
      [Fields(2000, 1, 1, 0, 0, IntArg(0)) EXCEPT ![1] = Power10(1000, 1074)],
      Fields(2000, 1, 1, 0, 0, DecTok(FALSE, <<1>>, 170)),
      Fields(2000, 1, 1, 0, 0, DecTok(FALSE, <<1>>, 400)),
      Fields(2023, 3, 15, 12, 0, NanTok),
      Fields(2023, 3, 15, 12, 0, InfTok(TRUE)) }

Vectors ==
    { <<IntArg(7000), IntArg(0), IntArg(0)>>,
      <<IntArg(3), IntArg(4), IntArg(-5)>>,
      <<DecTok(TRUE, <<1, 2345>>, -1), IntArg(4321), DecTok(FALSE, <<6>>, 3)>>,
      <<IntArg(0), IntArg(0), IntArg(1)>>,
      <<IntArg(7000), InfTok(FALSE), NanTok>> }

Script == TextTok

GoodArgs(d, v) == <<Script>> \o d \o v

\* a with argument i replaced by a token that int() or float() rejects:
\* text anywhere; a decimal numeral, nan and a numeral of 4301 digits
\* (10^4300) where int() is applied
Spoiled(a) ==
    { [a EXCEPT ![i] = TextTok] : i \in 2..ArgCount }
    \cup { [a EXCEPT ![i] = t] :
             i \in 2..6, t \in {DecTok(FALSE, <<5>>, -1), NanTok, Power10(1, 1075)} }

Example == GoodArgs(Fields(2023, 3, 15, 12, 0, IntArg(0)), <<IntArg(7000), IntArg(0), IntArg(0)>>)

CommandLines ==
    { GoodArgs(d, v) : d \in DateTimes, v \in Vectors }
    \cup { GoodArgs(d, <<IntArg(3), IntArg(4), IntArg(-5)>>) : d \in FarDateTimes }
    \cup Spoiled(Example)
    \cup { SubSeq(Example, 1, ArgCount - n) : n \in 1..MaxArgsOff }
    \cup { Example \o [i \in 1..n |-> IntArg(i)] : n \in 1..MaxArgsOff }

\* lines 76-84: the script's variables before the arguments are read; jd and
\* the names of lines 62 and 105 are not bound yet
Unread ==
    /\ year = ZFromInt(0) /\ month = ZFromInt(0) /\ day = ZFromInt(0)
    /\ hour = ZFromInt(0) /\ minute = ZFromInt(0)
    /\ second = FxZero
    /\ eci = <<FxZero, FxZero, FxZero>>
    /\ jd = Unbound
    /\ gmst = Unbound
    /\ ecef = <<Unbound, Unbound, Unbound>>
    /\ stdout = <<>>
    /\ raised = "none"
    /\ status = 0
    /\ calls = <<>>

Init ==
    /\ pc = "parse"
    /\ argv \in CommandLines
    /\ Unread
    /\ fin = <<>>
    /\ fout = <<>>

Next ==
    \/ ParseArgs
    \/ ParseError
    \/ Usage
    \/ CalcJD
    \/ CalcGMST
    \/ RotateStep
    \/ PrintX
    \/ PrintY
    \/ PrintZ

Spec == Init /\ [][Next]_vars

(***************************************************************************)
(* The functions applied on their own: fin is the input drawn, fout the    *)
(* result.  The script does not run in these specifications.               *)
(***************************************************************************)
ScriptIdle ==
    /\ argv = <<Script>>
    /\ Unread
    /\ fout = <<>>

ScriptVars == <<argv, year, month, day, hour, minute, second, eci, jd, gmst, ecef,
                stdout, raised, status, calls>>

\* the Gregorian calendar
IsLeap(y) == (y % 4 = 0 /\ y % 100 # 0) \/ y % 400 = 0

DaysInMonth(y, m) ==
    IF m = 2 THEN (IF IsLeap(y) THEN 28 + 1 ELSE 28)
    ELSE IF m \in {4, 6, 9, 11} THEN 30
    ELSE 30 + 1

\* the calendar day after y-m-d, as <<year, month, day>>
NextDay(y, m, d) ==
    IF d < DaysInMonth(y, m) THEN <<y, m, d + 1>>
    ELSE IF m < 12 THEN <<y, m + 1, 1>>
    ELSE <<y + 1, 1, 1>>

\* the years checked: each start year and the YearSpan years after it; in
\* 6771 the Julian Date passes 2^22
YearSpan == 1

StartYears == {1899, 1999, 2023, 6771}

Years == UNION { {b + k : k \in 0..YearSpan} : b \in StartYears }

\* 00:00:00, 23:59:59.5 and 17:43:21.7
TimesOfDay ==
    { <<0, 0, FxZero>>, <<23, 59, Lit(<<595>>, -1)>>, <<17, 43, Lit(<<217>>, -1)>> }

CalendarDates ==
    { <<y, m, d>> \in Years \X (1..12) \X (1..(30 + 1)) : d <= DaysInMonth(y, m) }

InitJD ==
    /\ pc = "jd_apply"
    /\ fin \in { <<c[1], c[2], c[3], t[1], t[2], t[3]>> : c \in CalendarDates, t \in TimesOfDay }
    /\ ScriptIdle

\* ymdhms_to_jd of the date and time drawn, the fields being ints
JDOf(y, m, d, t) ==
    ymdhms_to_jd(ZFromInt(y), ZFromInt(m), ZFromInt(d), ZFromInt(t[4]), ZFromInt(t[5]), t[6])

\* ymdhms_to_jd of the date drawn and of the day after it, at the same time
ApplyJDTo(n) ==
    fout' = <<JDOf(fin[1], fin[2], fin[3], fin), JDOf(n[1], n[2], n[3], fin)>>

ApplyJD ==
    /\ pc = "jd_apply"
    /\ ApplyJDTo(NextDay(fin[1], fin[2], fin[3]))
    /\ pc' = "jd_done"
    /\ UNCHANGED <<fin, ScriptVars>>

NextJD == ApplyJD

SpecJD == InitJD /\ [][NextJD]_vars

\* the Julian Dates checked: J2000.0 and up to MaxJDSteps steps of an eighth
\* of a day, of about a quarter of a year and of about a century to each
\* side; the floats up to MaxJDSteps to each side of the last one before
\* J2000.0 at which the polynomial of line 50 is negative; 0 and +-10^100
MaxJDSteps == 25

J2000 == Lit(<<245, 1545>>, 0)

JDSteps == { Lit(<<125>>, -3), Lit(<<91, 3125>>, -4), Lit(<<36, 5255>>, -1) }

LastNegative == Lit(<<2451, 5442, 2306, 9891>>, -9)

\* k units in the last place of LastNegative
Ulps(k) == IF k < 0 THEN Fx(TRUE, <<-k>>, -31) ELSE Fx(FALSE, NFromInt(k), -31)

JulianDates ==
    { FxAdd(J2000, FxMul(FxFromInt(k), st)) : k \in (-MaxJDSteps)..MaxJDSteps, st \in JDSteps }
    \cup { FxAdd(LastNegative, Ulps(k)) : k \in (-MaxJDSteps)..MaxJDSteps }
    \cup { FxZero, Lit(<<1>>, 100), FxNeg(Lit(<<1>>, 100)) }

InitGMST ==
    /\ pc = "gmst_apply"
    /\ fin \in { <<j>> : j \in JulianDates }
    /\ ScriptIdle

ApplyGMST ==
    /\ pc = "gmst_apply"
    /\ \E g \in jd_to_gmst(fin[1]) : fout' = <<g>>
    /\ pc' = "gmst_done"
    /\ UNCHANGED <<fin, ScriptVars>>

NextGMST == ApplyGMST

SpecGMST == InitGMST /\ [][NextGMST]_vars

\* the rotations checked: angles in degrees; coordinates -MaxCoord..MaxCoord,
\* the coordinates -1..1 times 7000, 10^100 and 10^-100, and vectors with a
\* coordinate whose square is subnormal, underflows or overflows
MaxCoord == 1

Angles ==
    { FxZero, FxFromInt(30), Lit(<<435>>, -1), FxFromInt(48), FxFromInt(90),
      Lit(<<1, 2725>>, -2), Lit(<<2, 3075>>, -2), Lit(<<3085>>, -1) }

Coords == { FxFromInt(k) : k \in (-MaxCoord)..MaxCoord }

Scales == { FxFromInt(7000), Lit(<<1>>, 100), Lit(<<1>>, -100) }

ScaledVectors ==
    { <<FxMul(s, FxFromInt(v[1])), FxMul(s, FxFromInt(v[2])), FxMul(s, FxFromInt(v[3]))>> :
        s \in Scales, v \in (-1..1) \X (-1..1) \X (-1..1) }

FarVectors ==
    { <<Lit(<<25>>, -163), FxZero, FxZero>>,
      <<Lit(<<1>>, -200), Lit(<<1>>, -100), FxZero>>,
      <<Lit(<<17>>, 307), Lit(<<17>>, 307), FxZero>>,
      <<FxFromInt(1), Lit(<<1>>, 200), FxFromInt(-1)>> }

RotVectors == (Coords \X Coords \X Coords) \cup ScaledVectors \cup FarVectors

InitRot ==
    /\ pc = "rot_apply"
    /\ fin \in { <<a, v[1], v[2], v[3]>> : a \in Angles, v \in RotVectors }
    /\ ScriptIdle

ApplyRot ==
    /\ pc = "rot_apply"
    /\ \E r \in Rotate(fin[1], fin[2], fin[3], fin[4]) : fout' = r
    /\ pc' = "rot_done"
    /\ UNCHANGED <<fin, ScriptVars>>

NextRot == ApplyRot

SpecRot == InitRot /\ [][NextRot]_vars

(***************************************************************************)
(* The claims.                                                             *)
(***************************************************************************)
\* ==, <= and abs() of floats
FxEq(x, y) == ~IsNaN(x) /\ ~IsNaN(y) /\ ((IsZero(x) /\ IsZero(y)) \/ x = y)

FxLeq(x, y) == FxEq(x, y) \/ FxLess(x, y)

FxAbs(x) == IF IsNaN(x) THEN x ELSE [x EXCEPT !.neg = FALSE]

Stages == <<"ymdhms_to_jd", "jd_to_gmst", "rotate">>

CoordKinds == <<"ecef_x_km", "ecef_y_km", "ecef_z_km">>

Kinds(out) == [i \in 1..Len(out) |-> out[i].kind]

IsPrefix(a, b) == Len(a) <= Len(b) /\ a = SubSeq(b, 1, Len(a))

\* nine arguments, all of which convert
AllConvert == Len(argv) = ArgCount /\ FirstBad(argv) = ArgCount + 1

\* 10^100 as an int
Googol == NMulPow5(NShlBits(<<1>>, 100), 100)

\* the five integers and the second given are of magnitude at most 10^100
WithinGoogol ==
    /\ \A i \in 2..6 : NCmp(int(argv[i]).mag, Googol) <= 0
    /\ FxLeq(FxAbs(float(argv[7])), Lit(<<1>>, 100))

\* x*x + y*y + z*z, as the floats give it
NormSq(v) == FxAdd(FxAdd(FxMul(v[1], v[1]), FxMul(v[2], v[2])), FxMul(v[3], v[3]))

\* 10^-14
RelTol == Lit(<<1>>, -14)

\* the unit in the last place of a finite x # 0
Ulp(x) == Fx(FALSE, <<1>>, Top(x) - MantBits)

One == FxFromInt(1)

\* C1: a run with another number of arguments than nine prints the usage
\* message and nothing else, enters none of the three stages and ends with a
\* non-zero exit status.
C1_UsageExitsNonZero ==
    (pc = "done" /\ Len(argv) # ArgCount) =>
        /\ stdout = <<Line("usage", Unbound)>>
        /\ calls = <<>>
        /\ status # 0

\* C2: ymdhms_to_jd(2000, 1, 1, 12, 0, 0) is exactly 2451545.0, the day count
\* of month 13 of 1999 plus the half day.
C2_Epoch ==
    (Len(calls) >= 1 /\ <<year, month, day, hour, minute>>
                          = <<ZFromInt(2000), ZFromInt(1), ZFromInt(1), ZFromInt(12), ZFromInt(0)>>
       /\ second = FxZero) =>
        /\ jd = Lit(<<245, 1545>>, 0)
        /\ Shifted(year, month) = <<ZFromInt(1999), ZFromInt(13)>>
        /\ Return(jd) = JulianDay(ZFromInt(1999), ZFromInt(13), CenturyTerm(ZFromInt(1999)).value,
                                  ZFromInt(1), ZFromInt(12), ZFromInt(0), FxZero)

C2_Witness ==
    /\ Len(calls) >= 1
    /\ <<year, month, day, hour, minute>>
         = <<ZFromInt(2000), ZFromInt(1), ZFromInt(1), ZFromInt(12), ZFromInt(0)>>
    /\ second = FxZero
    /\ jd = FxFromInt(2451545)

\* C3: jd_to_gmst returns g with 0 <= g < 360 for Julian Dates before, at and
\* after J2000.0, also where the polynomial in seconds is negative; 360 is
\* never returned.
C3_GmstRange ==
    pc = "gmst_done" =>
        /\ ~fout[1].raised
        /\ FxLeq(FxZero, fout[1].value)
        /\ FxLess(fout[1].value, FxFromInt(360))

C3_Witness ==
    /\ pc = "gmst_done"
    /\ FxLess(fin[1], J2000)
    /\ \A s \in GMST_sec(JulianCenturies(fin[1])) : FxLess(s.value, FxZero)
    /\ FxLess(FxFromInt(359), fout[1].value)
    /\ FxLess(fout[1].value, FxFromInt(360))

\* the x and y components of the outcomes rs
XY(rs) == { <<r.value[1], r.value[2]>> : r \in { o \in rs : ~o.raised } }

\* C4: the z-component eci_to_ecef returns is eci_z unchanged; eci_z does not
\* enter ecef_x or ecef_y, and eci_x and eci_y do not enter ecef_z.
C4_ZUnchanged ==
    (Len(calls) = 3 /\ raised = "none") =>
        /\ ecef[3] = eci[3]
        /\ Return(ecef) \in eci_to_ecef(jd, eci[1], eci[2], eci[3])
        /\ XY(eci_to_ecef(jd, eci[1], eci[2], eci[3])) = XY(eci_to_ecef(jd, eci[1], eci[2], One))
        /\ \A r \in eci_to_ecef(jd, FxZero, One, eci[3]) : ~r.raised => r.value[3] = eci[3]

C4_Witness ==
    /\ Len(calls) = 3
    /\ raised = "none"
    /\ eci[3] # FxZero
    /\ eci[1] # FxZero
    /\ ecef[1] # eci[1]
    /\ ecef[3] = eci[3]

\* C5 as stated: the rotated vector has exactly the squared magnitude of the
\* vector rotated.
C5_NormExact ==
    pc = "rot_done" => FxEq(NormSq(fout.value), NormSq(<<fin[2], fin[3], fin[4]>>))

\* a coordinate that is 0 or of magnitude from 10^-100 to 10^100
Moderate(x) ==
    \/ IsZero(x)
    \/ x.kind = "fin" /\ FxLeq(Lit(<<1>>, -100), FxAbs(x)) /\ FxLeq(FxAbs(x), Lit(<<1>>, 100))

\* an angle from 0 up to 360 degrees and three moderate coordinates
RotDomain(a) ==
    /\ FxLeq(FxZero, a[1]) /\ FxLess(a[1], FxFromInt(360))
    /\ Moderate(a[2]) /\ Moderate(a[3]) /\ Moderate(a[4])

\* C5 as amended: for an angle from 0 up to 360 degrees and coordinates that
\* are 0 or of magnitude from 10^-100 to 10^100, the squared magnitudes agree
\* to within the rounding of the arithmetic, a relative difference of at
\* most 10^-14.
C5_NormWithinRounding ==
    (pc = "rot_done" /\ RotDomain(fin)) =>
        /\ ~fout.raised
        /\ FxLeq(FxAbs(FxSub(NormSq(fout.value), NormSq(<<fin[2], fin[3], fin[4]>>))),
                 FxMul(RelTol, NormSq(<<fin[2], fin[3], fin[4]>>)))

C5_Witness ==
    /\ pc = "rot_done"
    /\ RotDomain(fin)
    /\ fin[1] = FxFromInt(48)
    /\ <<fin[2], fin[3], fin[4]>> = <<Lit(<<1>>, -100), FxNeg(Lit(<<1>>, -100)), Lit(<<1>>, -100)>>
    /\ ~FxEq(NormSq(fout.value), NormSq(<<fin[2], fin[3], fin[4]>>))
    /\ FxLeq(FxAbs(FxSub(NormSq(fout.value), NormSq(<<fin[2], fin[3], fin[4]>>))),
             FxMul(RelTol, NormSq(<<fin[2], fin[3], fin[4]>>)))

\* C6: the rotation by a GMST angle of 0 degrees returns the vector unchanged.
C6_IdentityAtZero ==
    (pc = "rot_done" /\ fin[1] = FxZero) =>
        /\ ~fout.raised
        /\ FxEq(fout.value[1], fin[2])
        /\ FxEq(fout.value[2], fin[3])
        /\ FxEq(fout.value[3], fin[4])

C6_Witness ==
    /\ pc = "rot_done"
    /\ fin[1] = FxZero
    /\ fin[2] = One
    /\ fin[3] = FxNeg(One)
    /\ fout.value = <<fin[2], fin[3], fin[4]>>

\* C7: for 2023-03-15 12:00:00 and eci = (7000, 0, 0) the Julian Date is
\* 2460019.0 and the run prints 7000*cos(theta), -7000*sin(theta) and 0, theta
\* being jd_to_gmst(2460019.0).
C7_Example ==
    (argv = Example /\ pc = "done") =>
        /\ jd = Lit(<<246, 19>>, 0)
        /\ Kinds(stdout) = CoordKinds
        /\ Return(gmst) \in jd_to_gmst(Lit(<<246, 19>>, 0))
        /\ \E c \in cos(degrees_to_radians(gmst)) :
               FxEq(stdout[1].v, FxMul(FxFromInt(7000), c.value))
        /\ \E s \in sin(degrees_to_radians(gmst)) :
               FxEq(stdout[2].v, FxMul(FxFromInt(-7000), s.value))
        /\ FxEq(stdout[3].v, FxZero)

C7_Witness ==
    /\ argv = Example
    /\ pc = "done"
    /\ Len(stdout) = 3
    /\ FxLess(FxFromInt(6000), stdout[1].v)
    /\ FxLess(FxFromInt(800), stdout[2].v)
    /\ jd = FxFromInt(2460019)

\* C8 as stated: whatever the integers and the real given as calendar fields,
\* the run ends without an error and prints the three coordinates and no
\* usage message.
C8_NeverRejected ==
    (pc = "done" /\ AllConvert) =>
        /\ raised = "none"
        /\ status = 0
        /\ Kinds(stdout) = CoordKinds

\* C8 as amended: the same, for integers and a second of magnitude at most
\* 10^100.
C8_NeverRejectedWithinGoogol ==
    (pc = "done" /\ AllConvert /\ WithinGoogol) =>
        /\ raised = "none"
        /\ status = 0
        /\ Kinds(stdout) = CoordKinds

C8_Witness ==
    /\ pc = "done"
    /\ AllConvert
    /\ month = ZFromInt(13)
    /\ day = ZFromInt(32)
    /\ hour = ZFromInt(25)
    /\ minute = ZFromInt(60)
    /\ raised = "none"
    /\ Kinds(stdout) = CoordKinds

\* C9 as stated: every run enters the three stages once each, in order, then
\* prints the three coordinates in order, and prints nothing before the
\* stages are done.
C9_EveryRunAllStages ==
    /\ pc = "done" => (calls = Stages /\ Kinds(stdout) = CoordKinds)
    /\ stdout # <<>> => calls = Stages

\* C9 as amended: no run enters a stage twice or out of order, each stage
\* uses the result of the one before, and no coordinate is printed before
\* the three stages are done; a run given nine arguments that convert, the
\* integers and the second of magnitude at most 10^100, enters all three and
\* prints the three coordinates in order; a run given another number of
\* arguments enters no stage and prints the usage message only.
C9_StagesInOrder ==
    /\ IsPrefix(calls, Stages)
    /\ IsPrefix(SelectSeq(Kinds(stdout), LAMBDA k : k # "usage"), CoordKinds)
    /\ (\E i \in 1..Len(stdout) : stdout[i].kind # "usage") => calls = Stages
    /\ (Len(calls) >= 2 \/ (Len(calls) = 1 /\ raised = "none")) =>
           Return(jd) = ymdhms_to_jd(year, month, day, hour, minute, second)
    /\ (Len(calls) = 3 \/ (Len(calls) = 2 /\ raised = "none")) =>
           Return(gmst) \in jd_to_gmst(jd)
    /\ (Len(calls) = 3 /\ raised = "none") =>
           Return(ecef) \in Rotate(gmst, eci[1], eci[2], eci[3])
    /\ (pc = "done" /\ AllConvert /\ WithinGoogol) =>
           (calls = Stages /\ Kinds(stdout) = CoordKinds)
    /\ (pc = "done" /\ Len(argv) # ArgCount) =>
           (calls = <<>> /\ Kinds(stdout) = <<"usage">>)

C9_Witness ==
    /\ pc = "done"
    /\ calls = Stages
    /\ Kinds(stdout) = CoordKinds
    /\ stdout[1].v = ecef[1]
    /\ ecef[1] # eci[1]

\* C10 as stated: the Julian Date of the calendar day after a Gregorian date,
\* at the same time of day, is the Julian Date of that date plus one.
C10_NextDayPlusOne ==
    pc = "jd_done" => FxEq(fout[2].value, FxAdd(fout[1].value, One))

\* C10 as amended: it is the Julian Date of that date plus one where the two
\* have the same exponent as floats, and within a unit in the last place of
\* it otherwise; it is the greater of the two.
C10_NextDayPlusOneInBinade ==
    pc = "jd_done" =>
        /\ ~fout[1].raised /\ ~fout[2].raised
        /\ Top(fout[1].value) = Top(fout[2].value) =>
               FxEq(fout[2].value, FxAdd(fout[1].value, One))
        /\ FxLeq(FxAbs(FxSub(fout[2].value, FxAdd(fout[1].value, One))), Ulp(fout[2].value))
        /\ FxLess(fout[1].value, fout[2].value)

C10_Witness ==
    /\ pc = "jd_done"
    /\ <<fin[1], fin[2], fin[3]>> = <<1900, 2, 28>>
    /\ NextDay(fin[1], fin[2], fin[3]) = <<1900, 3, 1>>
    /\ fout[2].value = FxAdd(fout[1].value, One)
====
